---- MODULE Spec2Model ----
(***************************************************************************)
(* Model of the drinks catalog backend (backend/src/api.py): five routes   *)
(* behind requires_auth, the Drink table, and the error handlers.          *)
(* One request is handled per step; the table is the only durable state.   *)
(***************************************************************************)
EXTENDS Integers, Sequences, FiniteSets, TLC

VARIABLES drinks, request, response

vars == <<drinks, request, response>>

(* Largest primary key the table hands out. *)
MaxId == 2

(***************************************************************************)
(* JSON values as Python sees them after request.get_json().               *)
(***************************************************************************)
Absent == [kind |-> "absent"]
JNull == [kind |-> "null"]
JStr(s) == [kind |-> "str", s |-> s]
JNum(n) == [kind |-> "num", n |-> n]
JList(items) == [kind |-> "list", items |-> items]
JDict(pairs) == [kind |-> "dict", pairs |-> pairs]
Pair(k, v) == [k |-> k, v |-> v]

(* Python truthiness: None, "", 0, [] and {} are falsy; a missing key     *)
(* read with dict.get() is None.                                           *)
Truthy(v) ==
    CASE v.kind = "absent" -> FALSE
      [] v.kind = "null" -> FALSE
      [] v.kind = "str" -> v.s # ""
      [] v.kind = "num" -> v.n # 0
      [] v.kind = "list" -> v.items # <<>>
      [] v.kind = "dict" -> v.pairs # <<>>

(***************************************************************************)
(* json.dumps: a JSON value to its text, kept as the sequence of lexical   *)
(* tokens of that text.                                                    *)
(***************************************************************************)
Punct(c) == [t |-> "p", v |-> c]
StrTok(s) == [t |-> "str", v |-> s]
NumTok(n) == [t |-> "num", v |-> ToString(n)]
NullTok == [t |-> "null", v |-> "null"]

RECURSIVE dumps(_)
RECURSIVE dumpsItems(_)
RECURSIVE dumpsPairs(_)
dumpsItems(items) ==
    IF Len(items) = 1 THEN dumps(items[1])
    ELSE dumps(items[1]) \o <<Punct(",")>> \o dumpsItems(Tail(items))

dumpsPairs(pairs) ==
    LET one == <<StrTok(pairs[1].k), Punct(":")>> \o dumps(pairs[1].v)
    IN  IF Len(pairs) = 1 THEN one
        ELSE one \o <<Punct(",")>> \o dumpsPairs(Tail(pairs))

dumps(v) ==
    CASE v.kind = "null" -> <<NullTok>>
      [] v.kind = "str" -> <<StrTok(v.s)>>
      [] v.kind = "num" -> <<NumTok(v.n)>>
      [] v.kind = "list" ->
            IF v.items = <<>> THEN <<Punct("["), Punct("]")>>
            ELSE <<Punct("[")>> \o dumpsItems(v.items) \o <<Punct("]")>>
      [] v.kind = "dict" ->
            IF v.pairs = <<>> THEN <<Punct("{"), Punct("}")>>
            ELSE <<Punct("{")>> \o dumpsPairs(v.pairs) \o <<Punct("}")>>

(***************************************************************************)
(* json.loads: recursive descent over the tokens; each parser returns the  *)
(* value read and the tokens left.                                         *)
(***************************************************************************)
Digits == 0..9
ParseNum(s) == CHOOSE n \in Digits : ToString(n) = s

RECURSIVE parseValue(_)
RECURSIVE parseItems(_, _)
RECURSIVE parsePairs(_, _)
parseItems(acc, ts) ==
    LET r == parseValue(ts)
    IN  IF Head(r.rest) = Punct(",")
        THEN parseItems(Append(acc, r.v), Tail(r.rest))
        ELSE [v |-> JList(Append(acc, r.v)), rest |-> Tail(r.rest)]

parsePairs(acc, ts) ==
    LET r == parseValue(Tail(Tail(ts)))
        p == Pair(ts[1].v, r.v)
    IN  IF Head(r.rest) = Punct(",")
        THEN parsePairs(Append(acc, p), Tail(r.rest))
        ELSE [v |-> JDict(Append(acc, p)), rest |-> Tail(r.rest)]

parseValue(ts) ==
    LET h == Head(ts)
    IN  CASE h.t = "null" -> [v |-> JNull, rest |-> Tail(ts)]
          [] h.t = "str" -> [v |-> JStr(h.v), rest |-> Tail(ts)]
          [] h.t = "num" -> [v |-> JNum(ParseNum(h.v)), rest |-> Tail(ts)]
          [] h = Punct("[") ->
                IF ts[2] = Punct("]")
                THEN [v |-> JList(<<>>), rest |-> Tail(Tail(ts))]
                ELSE parseItems(<<>>, Tail(ts))
          [] h = Punct("{") ->
                IF ts[2] = Punct("}")
                THEN [v |-> JDict(<<>>), rest |-> Tail(Tail(ts))]
                ELSE parsePairs(<<>>, Tail(ts))

loads(text) == parseValue(text).v

(* dict[key] and key in dict on a parsed JSON object. *)
HasKey(d, key) == \E i \in 1..Len(d.pairs) : d.pairs[i].k = key
GetKey(d, key) == d.pairs[CHOOSE i \in 1..Len(d.pairs) : d.pairs[i].k = key].v

(***************************************************************************)
(* Request inputs.                                                         *)
(***************************************************************************)
Water == JDict(<<Pair("name", JStr("water")), Pair("color", JStr("blue")),
                 Pair("parts", JNum(1))>>)
Sugar == JDict(<<Pair("name", JStr("sugar")), Pair("color", JStr("white")),
                 Pair("parts", JNum(2))>>)
Entries == {Water, Sugar}

Titles == {"", "water"}
TitleInputs == {Absent} \cup {JStr(t) : t \in Titles}
RecipeInputs == {Absent, Water, JList(<<Water>>), JList(<<Sugar>>), JList(<<>>)}

(* A request body: None when the request carries no JSON, else an object   *)
(* holding the keys that are present.                                      *)
Body(title, recipe) ==
    JDict((IF title = Absent THEN <<>> ELSE <<Pair("title", title)>>)
          \o (IF recipe = Absent THEN <<>> ELSE <<Pair("recipe", recipe)>>))
Bodies == {JNull} \cup {Body(t, r) : t \in TitleInputs, r \in RecipeInputs}

Ids == 1..MaxId
PathIds == 1..(MaxId + 1)

Scopes == {"get:drinks", "get:drinks-detail", "post:drinks", "patch:drinks",
           "delete:drinks"}

(* The Authorization header: absent, or a bearer token that is expired or  *)
(* not, with or without a permissions claim.                               *)
Token(expired, hasPermissions, permissions) ==
    [header |-> "bearer", expired |-> expired,
     hasPermissions |-> hasPermissions, permissions |-> permissions]
NoHeader == [header |-> "none", expired |-> FALSE, hasPermissions |-> FALSE,
             permissions |-> {}]
Credentials ==
    {NoHeader, Token(TRUE, TRUE, Scopes), Token(FALSE, FALSE, {}),
     Token(FALSE, TRUE, Scopes)}
    \cup {Token(FALSE, TRUE, Scopes \ {s}) : s \in Scopes}

(* What the persistence layer does on this request: nothing unusual, the   *)
(* query raises, or the commit raises.                                     *)
Faults == {"none", "query", "commit"}

(***************************************************************************)
(* auth.requires_auth: token verification, then the scope check.           *)
(***************************************************************************)
AuthError(code, description, status_code) ==
    [ok |-> FALSE, status_code |-> status_code,
     error |-> [code |-> code, description |-> description]]

requires_auth(permission, cred) ==
    CASE cred.header # "bearer" ->
            AuthError("authorization_header_missing",
                      "Authorization header is expected.", 401)
      [] cred.header = "bearer" /\ cred.expired ->
            AuthError("token_expired", "Token expired.", 401)
      [] cred.header = "bearer" /\ ~cred.expired /\ ~cred.hasPermissions ->
            AuthError("invalid_claims", "Permissions not included in JWT.", 401)
      [] cred.header = "bearer" /\ ~cred.expired /\ cred.hasPermissions
           /\ permission \notin cred.permissions ->
            AuthError("unauthorized", "Permission not found.", 401)
      [] OTHER -> [ok |-> TRUE]

(***************************************************************************)
(* database.models.Drink: rows [id, title, recipe] with recipe the JSON    *)
(* text; the two projections; insert, update and delete.                   *)
(***************************************************************************)
RowIds(db) == {d.id : d \in db}

long(row) == [id |-> row.id, title |-> row.title, recipe |-> loads(row.recipe)]

(* short() reads color and parts of every entry of the recipe list. *)
ShortDefined(row) ==
    LET r == loads(row.recipe)
    IN  /\ r.kind = "list"
        /\ \A i \in 1..Len(r.items) :
              /\ r.items[i].kind = "dict"
              /\ HasKey(r.items[i], "color")
              /\ HasKey(r.items[i], "parts")

short(row) ==
    LET r == loads(row.recipe)
    IN  [id |-> row.id, title |-> row.title,
         recipe |-> [i \in 1..Len(r.items) |->
                        [color |-> GetKey(r.items[i], "color"),
                         parts |-> GetKey(r.items[i], "parts")]]]

(* The unique constraint on title, and a commit that may fail. *)
insert(db, drink, newId, fault) ==
    IF fault = "commit" \/ \E d \in db : d.title = drink.title
    THEN [ok |-> FALSE, db |-> db]
    ELSE [ok |-> TRUE,
          db |-> db \cup {[id |-> newId, title |-> drink.title,
                           recipe |-> drink.recipe]}]

update(db, drink, fault) ==
    IF fault = "commit"
       \/ \E d \in db : d.id # drink.id /\ d.title = drink.title
    THEN [ok |-> FALSE, db |-> db]
    ELSE [ok |-> TRUE, db |-> {d \in db : d.id # drink.id} \cup {drink}]

delete(db, drink, fault) ==
    IF fault = "commit"
    THEN [ok |-> FALSE, db |-> db]
    ELSE [ok |-> TRUE, db |-> {d \in db : d.id # drink.id}]

(* Drink.query.all(), in primary-key order. *)
RECURSIVE all(_)
all(db) ==
    IF db = {} THEN <<>>
    ELSE LET first == CHOOSE d \in db : \A e \in db : d.id <= e.id
         IN  <<first>> \o all(db \ {first})

(* Drink.query.filter(Drink.id == id).one_or_none(): the row, or nothing. *)
one_or_none(db, id) == {d \in db : d.id = id}

(***************************************************************************)
(* Error handlers: each builds the response for one status code.           *)
(***************************************************************************)
Envelope(status, success, error, message) ==
    [status |-> status,
     body |-> [success |-> success, error |-> error, message |-> message]]

unprocessable == Envelope(422, FALSE, 422, "unprocessable")

not_found == Envelope(404, TRUE, 404, "Resource Not Found")

auth_error(error) ==
    Envelope(error.status_code, FALSE, error.status_code, error.error.description)

bad_request == Envelope(400, FALSE, 400, "Bad Request")

unauthorized == Envelope(401, FALSE, 401, "Unauthorized")

method_not_allowed == Envelope(405, TRUE, 405, "Method Not Allowed")

internal_server_error == Envelope(500, FALSE, 500, "Internal Server Error")

Ok(body) == [status |-> 200, body |-> body]

(* A handler's outcome: the table afterwards and the response sent. *)
Outcome(db, resp) == [drinks |-> db, response |-> resp]

(***************************************************************************)
(* The five view functions, as api.py runs them once requires_auth has     *)
(* let the request through.  An exception outside a try block reaches the  *)
(* 500 handler.                                                            *)
(***************************************************************************)
get_drinks(db, fault) ==
    IF fault = "query" \/ \E d \in db : ~ShortDefined(d)
    THEN Outcome(db, internal_server_error)
    ELSE LET rows == all(db)
         IN  Outcome(db, Ok([success |-> TRUE,
                             drinks |-> [i \in 1..Len(rows) |-> short(rows[i])]]))

get_drink_detail(db, fault) ==
    IF fault = "query"
    THEN Outcome(db, internal_server_error)
    ELSE LET rows == all(db)
         IN  Outcome(db, Ok([success |-> TRUE,
                             drinks |-> [i \in 1..Len(rows) |-> long(rows[i])]]))

(* create_drink without the isinstance(recipe_request, dict) branch. *)
create_drink_as_given(db, request_json, newId, fault) ==
    IF \/ request_json.kind # "dict"
       \/ ~HasKey(request_json, "recipe")
       \/ ~HasKey(request_json, "title")
    THEN Outcome(db, bad_request)
    ELSE LET drink == [title |-> GetKey(request_json, "title").s,
                       recipe |-> dumps(GetKey(request_json, "recipe"))]
             ins == insert(db, drink, newId, fault)
         IN  IF ~ins.ok
             THEN Outcome(db, bad_request)
             ELSE Outcome(ins.db,
                          Ok([success |-> TRUE,
                              drinks |-> <<long([id |-> newId,
                                                 title |-> drink.title,
                                                 recipe |-> drink.recipe])>>]))

(* create_drink whose except block does not abort. *)
create_drink_no_abort(db, request_json, newId, fault) ==
    IF \/ request_json.kind # "dict"
       \/ ~HasKey(request_json, "recipe")
       \/ ~HasKey(request_json, "title")
    THEN Outcome(db, bad_request)
    ELSE LET given == GetKey(request_json, "recipe")
             recipe_request == IF given.kind = "dict" THEN JList(<<given>>)
                               ELSE given
             drink == [title |-> GetKey(request_json, "title").s,
                       recipe |-> dumps(recipe_request)]
             ins == insert(db, drink, newId, fault)
         IN  Outcome(ins.db,
                     Ok([success |-> TRUE,
                         drinks |-> <<long([id |-> newId,
                                            title |-> drink.title,
                                            recipe |-> drink.recipe])>>]))

create_drink(db, request_json, newId, fault) ==
    IF \/ request_json.kind # "dict"
       \/ ~HasKey(request_json, "recipe")
       \/ ~HasKey(request_json, "title")
    THEN Outcome(db, bad_request)
    ELSE LET given == GetKey(request_json, "recipe")
             recipe_request == IF given.kind = "dict" THEN JList(<<given>>)
                               ELSE given
             drink == [title |-> GetKey(request_json, "title").s,
                       recipe |-> dumps(recipe_request)]
             ins == insert(db, drink, newId, fault)
         IN  IF ~ins.ok
             THEN Outcome(db, bad_request)
             ELSE Outcome(ins.db,
                          Ok([success |-> TRUE,
                              drinks |-> <<long([id |-> newId,
                                                 title |-> drink.title,
                                                 recipe |-> drink.recipe])>>]))

(* request_json.get(key): the value, or None when the key is missing. *)
Get(d, key) == IF HasKey(d, key) THEN GetKey(d, key) ELSE JNull

(* update_drink testing "is not None" where the code tests truthiness. *)
update_drink_if_present(db, request_json, id, fault) ==
    IF fault = "query" THEN Outcome(db, internal_server_error)
    ELSE IF one_or_none(db, id) = {} THEN Outcome(db, not_found)
    ELSE IF request_json.kind # "dict" THEN Outcome(db, bad_request)
    ELSE LET drink_query == CHOOSE d \in one_or_none(db, id) : TRUE
             title_request == Get(request_json, "title")
             recipe_request == Get(request_json, "recipe")
             changed ==
                 [id |-> drink_query.id,
                  title |-> IF title_request # JNull THEN title_request.s
                            ELSE drink_query.title,
                  recipe |-> IF recipe_request # JNull
                             THEN dumps(GetKey(request_json, "recipe"))
                             ELSE drink_query.recipe]
             upd == update(db, changed, fault)
         IN  IF ~upd.ok
             THEN Outcome(db, bad_request)
             ELSE Outcome(upd.db, Ok([success |-> TRUE,
                                      drinks |-> <<long(changed)>>]))

update_drink(db, request_json, id, fault) ==
    IF fault = "query" THEN Outcome(db, internal_server_error)
    ELSE IF one_or_none(db, id) = {} THEN Outcome(db, not_found)
    ELSE IF request_json.kind # "dict" THEN Outcome(db, bad_request)
    ELSE LET drink_query == CHOOSE d \in one_or_none(db, id) : TRUE
             title_request == Get(request_json, "title")
             recipe_request == Get(request_json, "recipe")
             changed ==
                 [id |-> drink_query.id,
                  title |-> IF Truthy(title_request) THEN title_request.s
                            ELSE drink_query.title,
                  recipe |-> IF Truthy(recipe_request)
                             THEN dumps(GetKey(request_json, "recipe"))
                             ELSE drink_query.recipe]
             upd == update(db, changed, fault)
         IN  IF ~upd.ok
             THEN Outcome(db, bad_request)
             ELSE Outcome(upd.db, Ok([success |-> TRUE,
                                      drinks |-> <<long(changed)>>]))

(* delete_drink that answers without calling drink_query.delete(). *)
delete_drink_no_delete(db, id, fault) ==
    IF fault = "query" THEN Outcome(db, internal_server_error)
    ELSE IF one_or_none(db, id) = {} THEN Outcome(db, not_found)
    ELSE Outcome(db, Ok([success |-> TRUE, delete |-> id]))

delete_drink(db, id, fault) ==
    IF fault = "query" THEN Outcome(db, internal_server_error)
    ELSE IF one_or_none(db, id) = {} THEN Outcome(db, not_found)
    ELSE LET drink_query == CHOOSE d \in one_or_none(db, id) : TRUE
             del == delete(db, drink_query, fault)
         IN  IF ~del.ok
             THEN Outcome(db, bad_request)
             ELSE Outcome(del.db, Ok([success |-> TRUE, delete |-> id]))

(***************************************************************************)
(* A route: the permission its decorator names, checked before the view    *)
(* function is entered.                                                    *)
(***************************************************************************)
(* A route registered without its requires_auth decorator. *)
Route_undecorated(db, permission, cred, handled) == handled

Route(db, permission, cred, handled) ==
    LET auth == requires_auth(permission, cred)
    IN  IF auth.ok THEN handled ELSE Outcome(db, auth_error(auth))

(* The permission each route's decorator names. *)
Permission(method, path) ==
    CASE method = "GET" /\ path = "/drinks" -> "get:drinks"
      [] method = "GET" /\ path = "/drinks-detail" -> "get:drinks-detail"
      [] method = "POST" /\ path = "/drinks" -> "post:drinks"
      [] method = "PATCH" /\ path = "/drinks/<int:id>" -> "patch:drinks"
      [] method = "DELETE" /\ path = "/drinks/<int:id>" -> "delete:drinks"

Request(method, path, id, cred, json, fault) ==
    [method |-> method, path |-> path, id |-> id, cred |-> cred,
     json |-> json, fault |-> fault]

NoRequest == Request("", "", 0, NoHeader, JNull, "none")
NoResponse == [status |-> 0, body |-> [success |-> FALSE]]

Routes == {<<"GET", "/drinks">>, <<"GET", "/drinks-detail">>,
           <<"POST", "/drinks">>, <<"PATCH", "/drinks/<int:id>">>,
           <<"DELETE", "/drinks/<int:id>">>}
Methods == {"GET", "POST", "PATCH", "DELETE"}
Paths == {"/drinks", "/drinks-detail", "/drinks/<int:id>"}

(* The requests a client can send.  A POST is taken only while the table   *)
(* has a free primary key.                                                 *)
Requests(db) ==
    {Request("GET", path, 0, cred, JNull, fault) :
        path \in {"/drinks", "/drinks-detail"}, cred \in Credentials,
        fault \in {"none", "query"}}
    \cup {Request("POST", "/drinks", 0, cred, json, fault) :
        cred \in IF Ids \ RowIds(db) = {} THEN {} ELSE Credentials,
        json \in Bodies, fault \in {"none", "commit"}}
    \cup {Request("PATCH", "/drinks/<int:id>", id, cred, json, fault) :
        id \in PathIds, cred \in Credentials, json \in Bodies, fault \in Faults}
    \cup {Request("DELETE", "/drinks/<int:id>", id, cred, JNull, fault) :
        id \in PathIds, cred \in Credentials, fault \in Faults}
    \cup {Request(method, path, 0, cred, JNull, "none") :
        method \in Methods, path \in Paths,
        cred \in {NoHeader, Token(FALSE, TRUE, Scopes)}}

Idle == request = NoRequest
Received == request # NoRequest /\ response = NoResponse
Responded == request # NoRequest /\ response # NoResponse

(* A request arrives. *)
Receive ==
    /\ Idle
    /\ \E req \in Requests(drinks) :
          /\ req.path = "/drinks/<int:id>" => req.id # 0
          /\ request' = req
    /\ UNCHANGED <<drinks, response>>

Dispatched(method, path) ==
    Received /\ request.method = method /\ request.path = path

Respond(out) ==
    /\ drinks' = out.drinks
    /\ response' = out.response
    /\ UNCHANGED request

GET_drinks ==
    /\ Dispatched("GET", "/drinks")
    /\ Respond(Route(drinks, Permission(request.method, request.path), request.cred,
                     get_drinks(drinks, request.fault)))

GET_drinks_detail ==
    /\ Dispatched("GET", "/drinks-detail")
    /\ Respond(Route(drinks, Permission(request.method, request.path), request.cred,
                     get_drink_detail(drinks, request.fault)))

(* The new row's primary key is any key no row holds. *)
POST_drinks ==
    /\ Dispatched("POST", "/drinks")
    /\ \E newId \in Ids \ RowIds(drinks) :
          Respond(Route(drinks, Permission(request.method, request.path), request.cred,
                        create_drink(drinks, request.json, newId, request.fault)))

PATCH_drinks_id ==
    /\ Dispatched("PATCH", "/drinks/<int:id>")
    /\ Respond(Route(drinks, Permission(request.method, request.path), request.cred,
                     update_drink(drinks, request.json, request.id, request.fault)))

DELETE_drinks_id ==
    /\ Dispatched("DELETE", "/drinks/<int:id>")
    /\ Respond(Route(drinks, Permission(request.method, request.path), request.cred,
                     delete_drink(drinks, request.id, request.fault)))

(* A method no route of the path accepts never reaches a view function. *)
MethodNotAllowed ==
    /\ Received
    /\ <<request.method, request.path>> \notin Routes
    /\ Respond(Outcome(drinks, method_not_allowed))

(* The response has been sent; the request context is torn down. *)
Finish ==
    /\ Responded
    /\ request' = NoRequest
    /\ response' = NoResponse
    /\ UNCHANGED drinks

(* db_drop_and_create_all(): an empty table, or the one demo row. *)
Init ==
    /\ drinks \in {{}, {[id |-> 1, title |-> "water",
                        recipe |-> dumps(JList(<<Water>>))]}}
    /\ request = NoRequest
    /\ response = NoResponse

Next ==
    \/ Receive
    \/ GET_drinks
    \/ GET_drinks_detail
    \/ POST_drinks
    \/ PATCH_drinks_id
    \/ DELETE_drinks_id
    \/ MethodNotAllowed
    \/ Finish

Spec == Init /\ [][Next]_vars

TypeOK ==
    /\ \A d \in drinks : d.id \in Ids /\ d.title \in Titles
    /\ response.status \in {0, 200, 400, 401, 404, 405, 500}

(***************************************************************************)
(* Vocabulary of the properties.                                           *)
(***************************************************************************)
Routed == <<request.method, request.path>> \in Routes
RequiredScope == Permission(request.method, request.path)
Authorized == Routed /\ requires_auth(RequiredScope, request.cred).ok

MissingCredential == request.cred.header = "none"
ExpiredCredential == request.cred.header = "bearer" /\ request.cred.expired
LacksScope ==
    /\ request.cred.header = "bearer"
    /\ ~request.cred.expired
    /\ request.cred.hasPermissions
    /\ RequiredScope \notin request.cred.permissions

Is(method) == Routed /\ request.method = method
Mutation == Is("POST") \/ Is("PATCH") \/ Is("DELETE")
Stored(id) == id \in RowIds(drinks)
Row(id) == CHOOSE d \in drinks : d.id = id
JsonGiven == request.json.kind = "dict"
Given(key) == IF JsonGiven THEN Get(request.json, key) ELSE JNull

C2_NotFoundEnvelope ==
    [][(/\ Received
        /\ Is("PATCH") \/ Is("DELETE")
        /\ Authorized
        /\ request.fault = "none"
        /\ ~Stored(request.id))
       => /\ response'.status = 404
          /\ response'.body.success = FALSE
          /\ response'.body.error = 404
          /\ drinks' = drinks]_vars

(* C3: every response whose status is not 200 carries success false, an    *)
(* error equal to the status and a string message; success is true only    *)
(* with status 200.                                                        *)
C3_UniformErrorEnvelope ==
    Responded =>
        /\ response.status # 200 =>
              /\ response.body.success = FALSE
              /\ response.body.error = response.status
              /\ response.body.message \in STRING
        /\ response.body.success = TRUE => response.status = 200

(* C4: no two rows ever share a title; an authorized create, or update     *)
(* giving a title, that would repeat the title of another row is answered  *)
(* with the 400 envelope and leaves every row as it was.                   *)
UniqueTitles == \A d, e \in drinks : d.title = e.title => d = e

DuplicatingCreate ==
    /\ Is("POST")
    /\ Authorized
    /\ JsonGiven
    /\ HasKey(request.json, "title")
    /\ HasKey(request.json, "recipe")
    /\ \E d \in drinks : d.title = GetKey(request.json, "title").s

DuplicatingUpdate ==
    /\ Is("PATCH")
    /\ Authorized
    /\ request.fault # "query"
    /\ Stored(request.id)
    /\ Truthy(Given("title"))
    /\ \E d \in drinks : d.id # request.id /\ d.title = Given("title").s

C4_TitleUniqueness ==
    /\ []UniqueTitles
    /\ [][(Received /\ (DuplicatingCreate \/ DuplicatingUpdate))
          => (response' = bad_request /\ drinks' = drinks)]_vars

C4_Witness ==
    /\ Responded
    /\ DuplicatingCreate
    /\ request.fault = "none"
    /\ response = bad_request
    /\ \E d \in drinks : d.title = Given("title").s

(* C5: the stored recipe of every row is a JSON list of entry objects.     *)
IsEntryList(v) ==
    /\ v.kind = "list"
    /\ \A i \in 1..Len(v.items) : v.items[i].kind = "dict"

C5_RecipeStoredAsList == \A d \in drinks : IsEntryList(loads(d.recipe))

(* C6: from any table, for every title t and entry e, a create with        *)
(* recipe e that succeeds stores the same row and returns the same long    *)
(* projection as a create with recipe [e], and that recipe is [e].         *)
C6_SingleEntrySameAsList ==
    \A t \in Titles, e \in Entries, newId \in Ids \ RowIds(drinks) :
        LET single == create_drink(drinks, Body(JStr(t), e), newId, "none")
            listed == create_drink(drinks, Body(JStr(t), JList(<<e>>)), newId,
                                   "none")
        IN  single.response.status = 200 =>
                /\ listed.response.status = 200
                /\ single.drinks = listed.drinks
                /\ single.response.body.drinks[1].recipe
                       = listed.response.body.drinks[1].recipe
                /\ single.response.body.drinks[1].recipe = JList(<<e>>)

C6_Witness ==
    /\ Responded
    /\ Is("POST")
    /\ Given("recipe") = Water
    /\ response.status = 200
    /\ response.body.drinks[1].recipe = JList(<<Water>>)

(* C7: an authorized update of a stored row, its JSON body given and the   *)
(* persistence layer working, overwrites the title exactly when the body   *)
(* has a non-empty title and the recipe exactly when the body has a        *)
(* non-empty recipe; the id stays, the other rows stay, the answer is 200  *)
(* with the long projection of the row, and it is refused (400, nothing    *)
(* changed) only when the new title is another row's.  With body {} the    *)
(* answer is 200 and the table is as before.                               *)
TitleSupplied == HasKey(request.json, "title") /\ Given("title") # JStr("")
RecipeSupplied ==
    /\ HasKey(request.json, "recipe")
    /\ Given("recipe") \notin {JList(<<>>), JDict(<<>>), JNull}

C7_PartialUpdate ==
    [][(/\ Received
        /\ Is("PATCH")
        /\ Authorized
        /\ request.fault = "none"
        /\ Stored(request.id)
        /\ JsonGiven)
       => LET old == Row(request.id)
          IN  /\ response'.status \in {200, 400}
              /\ response'.status = 400 =>
                    drinks' = drinks /\ DuplicatingUpdate
              /\ response'.status = 200 =>
                    \E new \in drinks' :
                        /\ new.id = old.id
                        /\ drinks' \ {new} = drinks \ {old}
                        /\ new.title = IF TitleSupplied THEN Given("title").s
                                       ELSE old.title
                        /\ new.recipe = IF RecipeSupplied
                                        THEN dumps(Given("recipe"))
                                        ELSE old.recipe
                        /\ response'.body = [success |-> TRUE,
                                             drinks |-> <<long(new)>>]
              /\ request.json = JDict(<<>>) =>
                    /\ response'.status = 200
                    /\ drinks' = drinks
                    /\ response'.body.drinks = <<long(old)>>]_vars

C7_Witness ==
    /\ Responded
    /\ Is("PATCH")
    /\ response.status = 200
    /\ Given("title") = JStr("")
    /\ Given("recipe") = JList(<<>>)
    /\ Stored(request.id)
    /\ Row(request.id).title = "water"
    /\ Row(request.id).recipe = dumps(JList(<<Sugar>>))

(* C8: a delete answered 200 names the id of the request, removes exactly  *)
(* that row and leaves the others; an id the table does not hold enters    *)
(* it only by a create answered 200 that was given that id; every list     *)
(* answered 200 shows exactly the ids the table holds; and an authorized   *)
(* update or delete of an id the table does not hold, the persistence      *)
(* layer working, is answered 404.  So a deleted id is listed nowhere and  *)
(* not found until a create is given it.                                   *)
ListedIds(resp) == {resp.body.drinks[i].id : i \in 1..Len(resp.body.drinks)}

C8_DeleteThenGone ==
    [][/\ (Received /\ Is("DELETE") /\ response'.status = 200) =>
            /\ Stored(request.id)
            /\ response'.body = [success |-> TRUE, delete |-> request.id]
            /\ drinks' = {d \in drinks : d.id # request.id}
       /\ \A k \in Ids :
            (k \notin RowIds(drinks) /\ k \in RowIds(drinks')) =>
                /\ Received
                /\ Is("POST")
                /\ response'.status = 200
                /\ response'.body.drinks[1].id = k
       /\ (Received /\ Is("GET") /\ response'.status = 200) =>
            /\ ListedIds(response') = RowIds(drinks)
            /\ drinks' = drinks
       /\ (/\ Received
           /\ Is("PATCH") \/ Is("DELETE")
           /\ Authorized
           /\ request.fault = "none"
           /\ ~Stored(request.id)) => response'.status = 404]_vars

C8_Witness ==
    /\ Responded
    /\ Is("DELETE")
    /\ response.status = 200
    /\ response.body.delete = request.id
    /\ ~Stored(request.id)
    /\ drinks # {}

(* C9: an authorized create, update or delete is never answered 500, and   *)
(* whatever fails in it (no JSON body, a create body without title or      *)
(* recipe, a query or commit that raises) is answered with the 400         *)
(* envelope; a create not answered 200 adds no row.                        *)
HandlingFails ==
    \/ request.fault # "none"
    \/ Is("POST") /\ ~JsonGiven
    \/ Is("POST") /\ JsonGiven /\ ~HasKey(request.json, "title")
    \/ Is("POST") /\ JsonGiven /\ ~HasKey(request.json, "recipe")
    \/ Is("PATCH") /\ ~JsonGiven /\ Stored(request.id)

C9_FailuresAre400 ==
    [][(Received /\ Mutation /\ Authorized)
       => /\ response'.status # 500
          /\ HandlingFails => response' = bad_request
          /\ (Is("POST") /\ response'.status # 200) => drinks' = drinks]_vars

(* C10: every stored row has a non-empty title.                            *)
C10_TitleNonEmpty == \A d \in drinks : d.title # ""

====
